---- MODULE Spec2Model ----
(***************************************************************************)
(* tap-contentquo: the authenticated extraction pipeline of                *)
(* src/tap_contentquo/streams.py and src/tap_contentquo/tap.py.            *)
(*                                                                         *)
(* Python values are encoded as follows.  A dict is a set of <<key,value>> *)
(* pairs with distinct keys.  None / JSON null is the string "None".  An   *)
(* Optional[dict] context is a record [none, d].  A response body is a     *)
(* record that says what kind of JSON document it is.                      *)
(*                                                                         *)
(* The run is modelled over the stream classes that streams.py defines.    *)
(* The driver that calls request_records (singer_sdk, not part of the      *)
(* repository's sources) is modelled from sections 4.3 and 4.5 of the      *)
(* specification.                                                          *)
(***************************************************************************)
EXTENDS Integers, Sequences, FiniteSets, TLC

VARIABLES
    token,      \* token[s]: the token attribute of stream instance s
    sstate,     \* sstate[s]: Pending / Running / Done
    queue,      \* contexts still to be requested by the Running stream
    ctxs,       \* ctxs[p]: child contexts derived from parent p's records
    status,     \* the run: running / done / aborted
    error,      \* the exception that aborted the run, or "none"
    now,        \* the clock, in minutes
    issued,     \* issued[t]: server-side instant token t was last handed out
    getSent,    \* some data GET has been dispatched in this run
    last,       \* what the most recent request_records call did
    resp,       \* the response to the GET of that call
    out,        \* the records that call yielded
    tpc,        \* concurrent callers of get_token: position of each
    treply,     \* concurrent callers: the authentication reply each holds
    tret,       \* concurrent callers: the value each returned
    nPosts,     \* concurrent callers: authentication POSTs issued
    badReply    \* concurrent callers: some reply was not a 200 with a token

vars == <<token, sstate, queue, ctxs, status, error, now, issued, getSent,
          last, resp, out, tpc, treply, tret, nPosts, badReply>>

runVars == <<token, sstate, queue, ctxs, status, error, now, issued, getSent,
             last, resp, out>>

concVars == <<tpc, treply, tret, nPosts, badReply>>

----------------------------------------------------------------------------
(* Bounds *)

\* longest array a response body carries
MaxRecs == 2

\* how many times the clock advances in a run
MaxTicks == 1

\* concurrent callers of get_token
NThreads == 2

----------------------------------------------------------------------------
(* Python values *)

None == "None"

Truthy(t) == t # None /\ t # ""

Has(d, k) == \E p \in d : p[1] = k

\* d[k], for a key that is present
Item(d, k) == (CHOOSE p \in d : p[1] = k)[2]

\* d[k] = v
Put(d, k, v) == {p \in d : p[1] # k} \cup {<<k, v>>}

Keys(d) == {p[1] : p \in d}

NoneCtx == [none |-> TRUE, d |-> {}]

Ctx(d) == [none |-> FALSE, d |-> d]

SeqsUpTo(S, n) == UNION {[1..k -> S] : k \in 0..n}

----------------------------------------------------------------------------
(* The stream catalog *)

\* tap.py registers these classes, in this order
STREAM_TYPES ==
    << "evaluations", "evaluation_details", "evaluation_issues",
       "evaluation_metadata", "evaluation_metrics", "users", "user_details" >>

\* the stream classes streams.py defines
Streams ==
    { "evaluations", "evaluation_details", "evaluation_issues",
      "evaluation_metrics", "users", "user_details" }

IsDefined(s) == s \in Streams

\* a registration that lists every child before its parent
Order_reversed ==
    [ i \in 1..Len(SelectSeq(STREAM_TYPES, IsDefined)) |->
        SelectSeq(STREAM_TYPES, IsDefined)
            [Len(SelectSeq(STREAM_TYPES, IsDefined)) + 1 - i] ]

\* the streams a run walks, in registration order
Order == SelectSeq(STREAM_TYPES, IsDefined)

\* parent_stream_type
Parent(s) ==
    CASE s \in {"evaluation_details", "evaluation_issues", "evaluation_metrics"}
            -> "evaluations"
      [] s = "user_details" -> "users"
      [] OTHER -> "none"

ParentStreams == {Parent(s) : s \in Streams} \ {"none"}

\* paths in which evaluation_metrics names its placeholder {id}
Placeholders_misnamed(s) ==
    CASE s \in {"evaluation_details", "evaluation_issues"} -> {"eid"}
      [] s \in {"evaluation_metrics", "user_details"} -> {"id"}
      [] OTHER -> {}

\* the {placeholder} tokens of path
Placeholders(s) ==
    CASE s \in {"evaluation_details", "evaluation_issues", "evaluation_metrics"}
            -> {"eid"}
      [] s = "user_details" -> {"id"}
      [] OTHER -> {}

\* primary_keys
PrimaryKeys(s) ==
    CASE s \in {"evaluations", "evaluation_details"} -> {"eid"}
      [] s = "evaluation_metrics" -> {"evaluationId"}
      [] OTHER -> {"id"}

EvaluationFields ==
    { "analyticalIssueCount", "assignees", "comments", "created", "currentStep",
      "editCount", "eid", "groupID", "groupName", "name", "profileID",
      "projectID", "qualityResult", "scope", "scoredAnalyticalIssueCount",
      "srcLocale", "started", "tgtLocale", "translatorID", "workflowID",
      "workflowName" }

\* the top-level properties of schema
SchemaFields(s) ==
    CASE s \in {"evaluations", "evaluation_details"} -> EvaluationFields
      [] s = "evaluation_issues" ->
            {"categories", "fileName", "id", "segmentId", "severity", "status"}
      [] s = "evaluation_metrics" ->
            { "evaluationId", "evaluationName", "metrics", "overallComment",
              "qualityProfile", "scope" }
      [] s = "users" -> {"id", "username", "email", "groupId"}
      [] OTHER ->
            { "id", "groupId", "username", "email", "firstname", "lastname",
              "fullname", "createdDate", "login", "role", "status", "languages" }

\* records_jsonpath
records_jsonpath(s) ==
    CASE s = "evaluations" -> "$.evaluations[*]"
      [] s = "evaluation_issues" -> "$.issues[*]"
      [] s = "users" -> "$[*]"
      [] OTHER -> "$"

\* the streams whose class overrides request_records to tolerate any non-200
LenientStreams == {"evaluation_issues"}

StrictStreams == Streams \ LenientStreams

----------------------------------------------------------------------------
(* The server: what it may answer *)

Tokens == {"tokA"}

\* assumed server-side lifetime of a token and the refresh margin, in minutes
ServerLifetime == 30

SafetyMargin == 5

\* an authentication reply: its status and response.json().get("token")
AuthReplies ==
    {[code |-> 200, tok |-> t] : t \in Tokens \cup {None}}
        \cup {[code |-> 401, tok |-> None]}

RawRecords == { {<<"eid", "E1">>, <<"id", "I1">>}, {<<"eid", "E2">>} }

RecordLists == SeqsUpTo(RawRecords, MaxRecs)

InvalidBody ==
    [ kind |-> "invalid", fields |-> {}, issues |-> "absent",
      evaluations |-> "absent", items |-> <<>> ]

\* a JSON array at the document root
ArrayBody(l) ==
    [ kind |-> "array", fields |-> {}, issues |-> "absent",
      evaluations |-> "absent", items |-> l ]

\* a JSON object with the fields f and no "issues" entry
ObjectBody(f) ==
    [ kind |-> "object", fields |-> f, issues |-> "absent",
      evaluations |-> "absent", items |-> <<>> ]

\* a JSON object whose "issues" entry is null
NullIssuesBody ==
    [ kind |-> "object", fields |-> {}, issues |-> "null",
      evaluations |-> "absent", items |-> <<>> ]

\* a JSON object whose "issues" entry is the array l
IssuesBody(l) ==
    [ kind |-> "object", fields |-> {}, issues |-> "list",
      evaluations |-> "absent", items |-> l ]

\* a JSON object whose "evaluations" entry is the array l
EvaluationsBody(l) ==
    [ kind |-> "object", fields |-> {}, issues |-> "absent",
      evaluations |-> "list", items |-> l ]

Bodies ==
    {InvalidBody, NullIssuesBody}
        \cup {ArrayBody(l) : l \in RecordLists}
        \cup {ObjectBody(f) : f \in RawRecords \cup {{}}}
        \cup {IssuesBody(l) : l \in RecordLists}
        \cup {EvaluationsBody(l) : l \in RecordLists}

ErrorCodes == {201, 404, 500}

GetReplies ==
    {[code |-> 200, body |-> b] : b \in Bodies}
        \cup {[code |-> c, body |-> InvalidBody] : c \in ErrorCodes}

NoReply == [code |-> 0, body |-> InvalidBody]

----------------------------------------------------------------------------
(* TapContentQuoStream *)

NoAuthReply == [code |-> 0, tok |-> None]

\* authenticate(): one POST, answered by reply; tok is self.token before it
authenticate(tok, reply) ==
    IF reply.code = 200
        THEN [token |-> reply.tok, raised |-> FALSE]
        ELSE [token |-> tok, raised |-> TRUE]

\* a get_token that authenticates on every call
get_token_always(tok, reply) ==
    LET a == authenticate(tok, reply)
    IN  [ before |-> tok, token |-> a.token,
          ret |-> IF a.raised THEN None ELSE a.token,
          posts |-> 1, raised |-> a.raised, reply |-> reply ]

\* get_token(): reply answers the POST, should one be made
get_token(tok, reply) ==
    IF ~Truthy(tok)
        THEN LET a == authenticate(tok, reply)
             IN  [ before |-> tok, token |-> a.token,
                   ret |-> IF a.raised THEN None ELSE a.token,
                   posts |-> 1, raised |-> a.raised, reply |-> reply ]
        ELSE [ before |-> tok, token |-> tok, ret |-> tok,
               posts |-> 0, raised |-> FALSE, reply |-> NoAuthReply ]

\* path.format(**context) finds every placeholder
FormatOk(s, ctx) == Placeholders(s) \subseteq Keys(ctx.d)

\* a post_process that no class overrides: the row goes through as it is
post_process_plain(s, row, ctx) == row

\* post_process(row, context): EvaluationIssues overrides the inherited identity
post_process(s, row, ctx) ==
    IF s = "evaluation_issues" THEN Put(row, "eid", Item(ctx.d, "eid")) ELSE row

\* the outcome of a request_records call
Outcome(tok, calls, sent, hdr, raised, yielded) ==
    [ token |-> tok, calls |-> calls, sent |-> sent, hdr |-> hdr,
      raised |-> raised, out |-> yielded ]

\* handle_response, were the strict streams to raise on a status other than
\* 200 and 404
handle_response_strict(s, ctx, r) ==
    IF r.code # 200
        THEN [ raised |-> IF s \in StrictStreams /\ r.code # 404
                             THEN "FatalAPIError" ELSE "none",
               out |-> <<>> ]
    ELSE IF r.body.kind = "invalid"
        THEN [raised |-> "JSONDecodeError", out |-> <<>>]
    ELSE IF r.body.kind = "array"
        THEN [raised |-> "AttributeError", out |-> <<>>]
    ELSE IF r.body.issues # "list" THEN [raised |-> "none", out |-> <<>>]
    ELSE [ raised |-> "none",
           out |-> [i \in 1..Len(r.body.items) |->
                        post_process(s, r.body.items[i], ctx)] ]

\* handle_response, were it to call raise_for_status before reading the body
handle_response_raising(s, ctx, r) ==
    IF r.code >= 400 THEN [raised |-> "HTTPError", out |-> <<>>]
    ELSE IF r.code # 200 THEN [raised |-> "none", out |-> <<>>]
    ELSE IF r.body.kind = "invalid"
        THEN [raised |-> "JSONDecodeError", out |-> <<>>]
    ELSE IF r.body.kind = "array"
        THEN [raised |-> "AttributeError", out |-> <<>>]
    ELSE IF r.body.issues # "list" THEN [raised |-> "none", out |-> <<>>]
    ELSE [ raised |-> "none",
           out |-> [i \in 1..Len(r.body.items) |->
                        post_process(s, r.body.items[i], ctx)] ]

\* what is done with the response to the GET: the same text in the base class
\* and in EvaluationIssues
handle_response(s, ctx, r) ==
    IF r.code # 200 THEN [raised |-> "none", out |-> <<>>]
    ELSE IF r.body.kind = "invalid"
        THEN [raised |-> "JSONDecodeError", out |-> <<>>]
    ELSE IF r.body.kind = "array"
        THEN [raised |-> "AttributeError", out |-> <<>>]
    ELSE IF r.body.issues # "list" THEN [raised |-> "none", out |-> <<>>]
    ELSE [ raised |-> "none",
           out |-> [i \in 1..Len(r.body.items) |->
                        post_process(s, r.body.items[i], ctx)] ]

\* request_records(context) on instance s whose token is tok; a1 and a2 answer
\* the authentication POSTs it may make, r answers its GET
\* a request_records without the test of context against None: the path is
\* formatted with whatever it is given
request_records_unguarded(s, tok, ctx, a1, a2, r) ==
    LET g1 == get_token(tok, a1)
    IN  IF g1.raised
            THEN Outcome(g1.token, <<g1>>, FALSE, None, "Exception", <<>>)
        ELSE IF ctx.none
            THEN Outcome(g1.token, <<g1>>, FALSE, None, "TypeError", <<>>)
        ELSE IF ~FormatOk(s, ctx)
            THEN Outcome(g1.token, <<g1>>, FALSE, None, "KeyError", <<>>)
        ELSE LET g2 == get_token(g1.token, a2)
             IN  IF g2.raised
                     THEN Outcome(g2.token, <<g1, g2>>, FALSE, None,
                                  "Exception", <<>>)
                     ELSE LET h == handle_response(s, ctx, r)
                          IN  Outcome(g2.token, <<g1, g2>>, TRUE, g2.ret,
                                      h.raised, h.out)

request_records(s, tok, ctx, a1, a2, r) ==
    LET g1 == get_token(tok, a1)
    IN  IF g1.raised
            THEN Outcome(g1.token, <<g1>>, FALSE, None, "Exception", <<>>)
        ELSE IF ctx.none
            THEN Outcome(g1.token, <<g1>>, FALSE, None, "none", <<>>)
        ELSE IF ~FormatOk(s, ctx)
            THEN Outcome(g1.token, <<g1>>, FALSE, None, "KeyError", <<>>)
        ELSE LET g2 == get_token(g1.token, a2)
             IN  IF g2.raised
                     THEN Outcome(g2.token, <<g1, g2>>, FALSE, None,
                                  "Exception", <<>>)
                     ELSE LET h == handle_response(s, ctx, r)
                          IN  Outcome(g2.token, <<g1, g2>>, TRUE, g2.ret,
                                      h.raised, h.out)

\* the field get_child_context copies into the child context
ChildKey(p) == IF p = "evaluations" THEN "eid" ELSE "id"

\* a get_child_context that hands the whole record down
get_child_context_whole(p, record, context) == Ctx(record)

\* get_child_context(record, context) of Evaluations and Users
get_child_context(p, record, context) ==
    Ctx({<<ChildKey(p), Item(record, ChildKey(p))>>})

----------------------------------------------------------------------------
(* The run *)

Threads == 1..NThreads

\* the instance the concurrent callers share
Shared == "evaluations"

NoCall ==
    [ stream |-> "none", ctx |-> NoneCtx, calls |-> <<>>, sent |-> FALSE,
      hdr |-> None, expired |-> FALSE, fresh |-> FALSE, raised |-> "none" ]

Init ==
    /\ token = [s \in Streams |-> None]
    /\ sstate = [s \in Streams |-> "Pending"]
    /\ queue = <<>>
    /\ ctxs = [p \in ParentStreams |-> <<>>]
    /\ status = "running"
    /\ error = "none"
    /\ now = 0
    /\ issued = [t \in Tokens |-> 0]
    /\ getSent = FALSE
    /\ last = NoCall
    /\ resp = NoReply
    /\ out = <<>>
    /\ tpc = [t \in Threads |-> "check"]
    /\ treply = [t \in Threads |-> NoAuthReply]
    /\ tret = [t \in Threads |-> None]
    /\ nPosts = 0
    /\ badReply = FALSE

\* a root stream is requested once, with no context or with the empty one
RootContexts == {NoneCtx, Ctx({})}

Position(s) == CHOOSE i \in 1..Len(Order) : Order[i] = s

\* a stream enters Running: every stream before it is Done
StartStream(s) ==
    /\ status = "running"
    /\ sstate[s] = "Pending"
    /\ \A u \in Streams : Position(u) < Position(s) => sstate[u] = "Done"
    /\ sstate' = [sstate EXCEPT ![s] = "Running"]
    /\ IF Parent(s) = "none"
          THEN \E c \in RootContexts : queue' = <<c>>
          ELSE queue' = ctxs[Parent(s)]
    /\ UNCHANGED <<token, ctxs, status, error, now, issued, getSent, last,
                   resp, out>>
    /\ UNCHANGED concVars

\* the server's record of when it handed out each token, after the calls
IssuedAfter(calls) ==
    [t \in Tokens |->
        IF \E i \in 1..Len(calls) :
              calls[i].posts = 1 /\ calls[i].reply.code = 200
                  /\ calls[i].reply.tok = t
            THEN now ELSE issued[t]]

\* the token has not reached its expiry less the safety margin
Fresh(t, iss) == t \in Tokens /\ now < iss[t] + ServerLifetime - SafetyMargin

\* a reply exists only for a request that is made: the replies to the POST of
\* the first get_token, to the POST of the second, and to the GET
FirstReplies(tok) ==
    IF get_token(tok, NoAuthReply).posts = 0 THEN {NoAuthReply} ELSE AuthReplies

SecondReplies(s, tok, ctx, a1) ==
    LET g1 == get_token(tok, a1)
    IN  IF \/ g1.raised \/ ctx.none \/ ~FormatOk(s, ctx)
           \/ get_token(g1.token, NoAuthReply).posts = 0
            THEN {NoAuthReply} ELSE AuthReplies

Replies(s, tok, ctx, a1, a2) ==
    IF request_records(s, tok, ctx, a1, a2, NoReply).sent
        THEN GetReplies ELSE {NoReply}

\* one request_records call on instance s with the context c, run to the end
\* of its generator
Call(s, c) ==
    \E a1 \in FirstReplies(token[s]) :
    \E a2 \in SecondReplies(s, token[s], c, a1) :
    \E r \in Replies(s, token[s], c, a1, a2) :
       LET res == request_records(s, token[s], c, a1, a2, r)
           iss == IssuedAfter(res.calls)
       IN  /\ token' = [token EXCEPT ![s] = res.token]
           /\ issued' = iss
           /\ getSent' = (getSent \/ res.sent)
           /\ resp' = IF res.sent THEN r ELSE NoReply
           /\ out' = res.out
           /\ last' = [ stream |-> s, ctx |-> c, calls |-> res.calls,
                        sent |-> res.sent, hdr |-> res.hdr,
                        expired |-> Truthy(token[s])
                                      /\ ~Fresh(token[s], issued),
                        fresh |-> res.sent /\ Fresh(res.hdr, iss),
                        raised |-> res.raised ]
           /\ status' = IF res.raised # "none" THEN "aborted" ELSE status
           /\ error' = res.raised

\* the Running stream requests the next context
RequestRecords(s) ==
    /\ status = "running"
    /\ sstate[s] = "Running"
    /\ queue # <<>>
    /\ last = NoCall
    /\ Call(s, Head(queue))
    /\ UNCHANGED <<sstate, queue, ctxs, now>>
    /\ UNCHANGED concVars

\* the records of the call go to the collector, each parent record gives one
\* child context, and the stream moves on to its next context
Collect(s) ==
    /\ status = "running"
    /\ sstate[s] = "Running"
    /\ last # NoCall
    /\ LET isParent == s \in ParentStreams
           keyed == \A i \in 1..Len(out) : Has(out[i], ChildKey(s))
       IN  IF isParent /\ ~keyed
              THEN /\ status' = "aborted"
                   /\ error' = "KeyError"
                   /\ UNCHANGED <<queue, ctxs, last, resp, out>>
              ELSE /\ queue' = Tail(queue)
                   /\ ctxs' = IF isParent
                         THEN [ctxs EXCEPT ![s] = ctxs[s] \o
                                 [i \in 1..Len(out) |->
                                     get_child_context(s, out[i], last.ctx)]]
                         ELSE ctxs
                   /\ last' = NoCall
                   /\ resp' = NoReply
                   /\ out' = <<>>
                   /\ UNCHANGED <<status, error>>
    /\ UNCHANGED <<token, sstate, now, issued, getSent>>
    /\ UNCHANGED concVars

\* the Running stream has no context left: it is Done, and so is the run after
\* the last stream
FinishStream(s) ==
    /\ status = "running"
    /\ sstate[s] = "Running"
    /\ queue = <<>>
    /\ last = NoCall
    /\ sstate' = [sstate EXCEPT ![s] = "Done"]
    /\ status' = IF Position(s) = Len(Order) THEN "done" ELSE status
    /\ UNCHANGED <<token, queue, ctxs, error, now, issued, getSent, last,
                   resp, out>>
    /\ UNCHANGED concVars

\* time passes between two requests
Tick ==
    /\ status = "running"
    /\ now < MaxTicks * (ServerLifetime - SafetyMargin)
    /\ now' = now + (ServerLifetime - SafetyMargin)
    /\ UNCHANGED <<token, sstate, queue, ctxs, status, error, issued, getSent,
                   last, resp, out>>
    /\ UNCHANGED concVars

Next ==
    \/ \E s \in Streams : StartStream(s)
    \/ \E s \in Streams : RequestRecords(s)
    \/ \E s \in Streams : Collect(s)
    \/ \E s \in Streams : FinishStream(s)

Spec == Init /\ [][Next]_vars

\* the same run, with time passing
ClockNext == Next \/ Tick

SpecClock == Init /\ [][ClockNext]_vars

----------------------------------------------------------------------------
(* get_token called by several threads on one instance: the method holds   *)
(* no lock, so its reads and its write of self.token interleave            *)

\* line 52: if not self.token
TCheck(t) ==
    /\ tpc[t] = "check"
    /\ tpc' = [tpc EXCEPT ![t] = IF ~Truthy(token[Shared]) THEN "post"
                                                         ELSE "return"]
    /\ UNCHANGED <<treply, tret, nPosts, badReply>>
    /\ UNCHANGED runVars

\* line 42: requests.post
TPost(t) ==
    /\ tpc[t] = "post"
    /\ \E a \in AuthReplies :
          /\ treply' = [treply EXCEPT ![t] = a]
          /\ badReply' = (badReply \/ ~(a.code = 200 /\ Truthy(a.tok)))
    /\ nPosts' = nPosts + 1
    /\ tpc' = [tpc EXCEPT ![t] = "store"]
    /\ UNCHANGED tret
    /\ UNCHANGED runVars

\* lines 43-48: store the token, or raise
TStore(t) ==
    /\ tpc[t] = "store"
    /\ LET a == authenticate(token[Shared], treply[t])
       IN  /\ token' = [token EXCEPT ![Shared] = a.token]
           /\ tpc' = [tpc EXCEPT ![t] = IF a.raised THEN "raised" ELSE "return"]
    /\ UNCHANGED <<treply, tret, nPosts, badReply>>
    /\ UNCHANGED <<sstate, queue, ctxs, status, error, now, issued, getSent,
                   last, resp, out>>

\* line 54: return self.token
TReturn(t) ==
    /\ tpc[t] = "return"
    /\ tret' = [tret EXCEPT ![t] = token[Shared]]
    /\ tpc' = [tpc EXCEPT ![t] = "done"]
    /\ UNCHANGED <<treply, nPosts, badReply>>
    /\ UNCHANGED runVars

ConcNext ==
    \E t \in Threads : TCheck(t) \/ TPost(t) \/ TStore(t) \/ TReturn(t)

SpecConc == Init /\ [][ConcNext]_vars

----------------------------------------------------------------------------
(* request_records called directly, with any context, on any instance *)

AnyContexts ==
    {NoneCtx, Ctx({}), Ctx({<<"eid", "E1">>}), Ctx({<<"id", "I1">>})}

\* a caller runs request_records(context) on the instance s
CallAny(s, c) ==
    /\ status = "running"
    /\ last = NoCall
    /\ Call(s, c)
    /\ UNCHANGED <<sstate, queue, ctxs, now>>
    /\ UNCHANGED concVars

\* the caller has consumed the generator
Return ==
    /\ status = "running"
    /\ last # NoCall
    /\ last' = NoCall
    /\ resp' = NoReply
    /\ out' = <<>>
    /\ UNCHANGED <<token, sstate, queue, ctxs, status, error, now, issued,
                   getSent>>
    /\ UNCHANGED concVars

CallNext ==
    \/ \E s \in Streams : \E c \in AnyContexts : CallAny(s, c)
    \/ Return

SpecCall == Init /\ [][CallNext]_vars

----------------------------------------------------------------------------
(* Properties *)

Is2xx(c) == c \in 200..299

\* a data GET was dispatched by the call on stream s that has just run
Requested(s) == last.stream = s /\ last.sent

\* C1: a GET that carries a credential carries one whose expiry, less the
\* safety margin, is strictly later than the clock at dispatch
C1_FreshAtDispatch == (last.sent /\ last.hdr \in Tokens) => last.fresh

\* C2: when an authentication call fails the run aborts and no data GET has
\* been issued in the run
C2_NoGetWhenAuthFails == (status = "aborted" /\ error = "Exception") => ~getSent

\* C3: a 200 authentication reply without a token makes get_token fail; no
\* GET follows it and none is sent with an absent token
C3_MissingTokenFails ==
    /\ (\E i \in 1..Len(last.calls) :
           last.calls[i].reply.code = 200 /\ last.calls[i].reply.tok = None)
          => (last.raised = "Exception" /\ ~last.sent)
    /\ last.sent => last.hdr # None

StrictChildren == {"evaluation_details", "evaluation_metrics", "user_details"}

\* C5: a strict child stream gives zero records for a context answered 404
\* and, for a context answered 200 with a record at the document root, exactly
\* that record; neither aborts the run
C5_ChildRecordPerContext ==
    \A s \in StrictChildren :
        Requested(s) =>
            /\ resp.code = 404 => (out = <<>> /\ status = "running")
            /\ (resp.code = 200 /\ resp.body.kind = "object"
                    /\ resp.body.issues = "absent" /\ resp.body.fields # {})
                  => (out = <<resp.body.fields>> /\ status = "running")

\* a lenient stream has just been answered with a status outside 2xx
LenientFailure == Requested("evaluation_issues") /\ ~Is2xx(resp.code)

\* C6: a status outside 2xx on evaluation_issues raises nothing and gives
\* zero records for that context, and the run goes on: its next step takes the
\* stream to its next context with the run still running, and the stream that
\* starts once evaluation_issues is Done is evaluation_metrics
C6_LenientGoesOn ==
    /\ [](LenientFailure
            => (last.raised = "none" /\ out = <<>> /\ status = "running"))
    /\ [][LenientFailure
            => (status' = "running" /\ queue' = Tail(queue)
                  /\ sstate' = sstate /\ last' = NoCall)]_vars
    /\ [][(status = "running" /\ sstate["evaluation_issues"] = "Done"
              /\ sstate["evaluation_metrics"] = "Pending")
            => sstate'["evaluation_metrics"] = "Running"]_vars

C6_Witness == LenientFailure /\ resp.code = 500 /\ Len(queue) = 1

\* C7: a get_token call that finds a credential present and not expired
\* makes no POST and returns that credential; one that finds it absent or
\* expired makes exactly one POST
C7_RefreshWhenNeeded ==
    \A i \in 1..Len(last.calls) :
        LET g == last.calls[i]
        IN  IF Truthy(g.before) /\ ~last.expired
                THEN g.posts = 0 /\ g.ret = g.before /\ g.token = g.before
                ELSE g.posts = 1

AllReturned == \A t \in Threads : tpc[t] = "done"

\* C8: callers that find the credential absent at the same time issue one
\* authentication POST between them, as long as every reply carries a token
C8_SingleFlight ==
    ~badReply => (nPosts <= 1 /\ (AllReturned => nPosts = 1))

\* C9: every record a call yields holds each primary-key field of its
\* stream, with a value that is not null
C9_PrimaryKeysPresent ==
    \A s \in Streams :
        last.stream = s =>
            \A i \in 1..Len(out) : \A k \in PrimaryKeys(s) :
                Has(out[i], k) /\ Item(out[i], k) # None

\* C10: every record a call yields has exactly the fields of its stream's
\* schema and the keys of its context, and the schema declares those keys
C10_ExactShape ==
    \A s \in Streams :
        (last.stream = s /\ out # <<>>) =>
            /\ Keys(last.ctx.d) \subseteq SchemaFields(s)
            /\ \A i \in 1..Len(out) :
                  Keys(out[i]) = SchemaFields(s) \cup Keys(last.ctx.d)

\* the names the tap registers
Registered == {STREAM_TYPES[i] : i \in 1..Len(STREAM_TYPES)}

RECURSIVE Depth(_, _)
\* the length of the parent chain of s, followed for at most n links
Depth(s, n) ==
    IF n = 0 \/ Parent(s) = "none" THEN 0 ELSE 1 + Depth(Parent(s), n - 1)

\* C11: the registered catalog is evaluations with the children
\* evaluation_details, evaluation_issues, evaluation_metadata and
\* evaluation_metrics, and users with the child user_details; every registered
\* stream is defined, every child's parent is registered, and the parent
\* relation has no cycle; discover_streams holds one instance of each
C11_CatalogWellFormed ==
    /\ DOMAIN sstate = Registered
    /\ Registered = { "evaluations", "evaluation_details", "evaluation_issues",
                      "evaluation_metadata", "evaluation_metrics", "users",
                      "user_details" }
    /\ \A s \in Registered : IsDefined(s)
    /\ \A s \in Registered :
          Parent(s) = CASE s \in {"evaluations", "users"} -> "none"
                        [] s = "user_details" -> "users"
                        [] OTHER -> "evaluations"
    /\ \A s \in Registered : Parent(s) # "none" => Parent(s) \in Registered
    /\ \A s \in Registered : Depth(s, Len(STREAM_TYPES)) < Len(STREAM_TYPES)

\* the step that hands the records of a call on p to the collector
Collected(p) == last.stream = p /\ last' = NoCall

\* C12: the child contexts a parent derives are a function of the
\* identifier field of each record alone: whatever the incoming context, the
\* token and the earlier calls, the record gives the context that holds its
\* eid (evaluations) or its id (users) and nothing else
C12_ContextFromIdentifier ==
    [][ \A p \in ParentStreams :
          Collected(p) =>
             ctxs'[p] = ctxs[p] \o
                [ i \in 1..Len(out) |->
                    [ none |-> FALSE,
                      d |-> { << (IF p = "evaluations" THEN "eid" ELSE "id"),
                                 Item(out[i],
                                      IF p = "evaluations" THEN "eid"
                                                           ELSE "id") >> } ] ]
      ]_vars

\* the same record, emitted twice, has given the same context twice although
\* the token changed between Init and the call
C12_Witness ==
    /\ Len(ctxs["evaluations"]) = 2
    /\ ctxs["evaluations"][1] = ctxs["evaluations"][2]
    /\ ctxs["evaluations"][1] = Ctx({<<"eid", "E1">>})
    /\ Truthy(token["evaluations"])

\* the body has the shape the stream's records_jsonpath reads: the named
\* array, a root array, or a flat root object
Shaped(s, b) ==
    CASE records_jsonpath(s) = "$.evaluations[*]" ->
            b.kind = "object" /\ b.evaluations = "list"
      [] records_jsonpath(s) = "$.issues[*]" ->
            b.kind = "object" /\ b.issues = "list"
      [] records_jsonpath(s) = "$[*]" -> b.kind = "array"
      [] OTHER -> /\ b.kind = "object" /\ b.fields # {}
                  /\ b.issues = "absent" /\ b.evaluations = "absent"

\* the elements records_jsonpath(s) locates in a body of that shape
Located(s, b) ==
    IF records_jsonpath(s) = "$" THEN <<b.fields>> ELSE b.items

\* C13: on a 2xx response of the shape its records_jsonpath reads, a stream
\* yields exactly the elements that path locates, in response order (each
\* through the stream's post_process), and raises nothing
C13_YieldsLocated ==
    \A s \in Streams :
        (Requested(s) /\ Is2xx(resp.code) /\ Shaped(s, resp.body)) =>
            /\ last.raised = "none"
            /\ out = [ i \in 1..Len(Located(s, resp.body)) |->
                         post_process(s, Located(s, resp.body)[i], last.ctx) ]

C15_OneAuthentication ==
    (last.stream \in Streams
        /\ \E u \in Streams \ {last.stream} : Truthy(token[u])) =>
            \A i \in 1..Len(last.calls) : last.calls[i].posts = 0

ChildStreams == {s \in Streams : Parent(s) # "none"}

\* q is what is left of l after some of its first elements were taken
IsSuffix(q, l) ==
    /\ Len(q) <= Len(l)
    /\ \A i \in 1..Len(q) : q[i] = l[Len(l) - Len(q) + i]

Supplies(s, ctx) == ~ctx.none /\ Placeholders(s) \subseteq Keys(ctx.d)

Posted200(g) == g.posts = 1 /\ g.reply.code = 200

\* C18: a GET of an instance carries the token that instance holds, which an
\* authentication POST of that instance answered 200 has stored; the token of
\* an instance changes only by such a POST, and never once it is non-empty
C18_TokenStoredOnce ==
    /\ [](last.sent =>
            /\ last.hdr = token[last.stream]
            /\ \/ Truthy(last.calls[1].before)
               \/ \E i \in 1..Len(last.calls) : Posted200(last.calls[i]))
    /\ [][\A s \in Streams :
            token'[s] # token[s] =>
               /\ ~Truthy(token[s])
               /\ last'.stream = s
               /\ \E i \in 1..Len(last'.calls) :
                     /\ Posted200(last'.calls[i])
                     /\ last'.calls[i].reply.tok = token'[s]
         ]_vars

\* an instance that stored a token in an earlier call sends its next GET with
\* that token and without a POST
C18_Witness ==
    /\ Requested("evaluation_issues")
    /\ \A i \in 1..Len(last.calls) : last.calls[i].posts = 0
    /\ last.hdr \in Tokens
    /\ last.hdr = token["evaluation_issues"]

\* the call got its GET answered 200 with a JSON object
Object200 == last.sent /\ resp.code = 200 /\ resp.body.kind = "object"

\* what a stream is to emit for an element of the "issues" array
Emitted(s, item, ctx) ==
    IF s = "evaluation_issues" THEN Put(item, "eid", Item(ctx.d, "eid"))
                               ELSE item

\* the call made an authentication POST that was not answered 200
AuthFailed ==
    \E i \in 1..Len(last.calls) :
        last.calls[i].posts = 1 /\ last.calls[i].reply.code # 200

\* C19 as stated: a call emits the elements of the "issues" array of a 200
\* body, in order, each through post_process with the context of the call,
\* and emits only then; with no context, with a status other than 200, or
\* with an object whose "issues" is absent or null it emits nothing and
\* raises nothing
C19_IssuesOn200Only ==
    \A s \in Streams :
        last.stream = s =>
            /\ (Object200 /\ resp.body.issues = "list") =>
                  /\ last.raised = "none"
                  /\ out = [ i \in 1..Len(resp.body.items) |->
                               Emitted(s, resp.body.items[i], last.ctx) ]
            /\ out # <<>> => (last.sent /\ resp.code = 200)
            /\ ( \/ last.ctx.none
                 \/ last.sent /\ resp.code # 200
                 \/ Object200 /\ resp.body.issues \in {"absent", "null"} ) =>
                     (out = <<>> /\ last.raised = "none")

\* C19: the same, but a call with no context raises when the authentication
\* it makes first fails, and only then
C19_IssuesOn200OnlyOnceAuthenticated ==
    \A s \in Streams :
        last.stream = s =>
            /\ (Object200 /\ resp.body.issues = "list") =>
                  /\ last.raised = "none"
                  /\ out = [ i \in 1..Len(resp.body.items) |->
                               Emitted(s, resp.body.items[i], last.ctx) ]
            /\ out # <<>> => (last.sent /\ resp.code = 200)
            /\ last.ctx.none =>
                  /\ out = <<>> /\ ~last.sent
                  /\ IF AuthFailed THEN last.raised = "Exception"
                                   ELSE last.raised = "none"
            /\ ( \/ last.sent /\ resp.code # 200
                 \/ Object200 /\ resp.body.issues \in {"absent", "null"} ) =>
                     (out = <<>> /\ last.raised = "none")

\* evaluation_issues emits two elements of a 200 body, the second with the
\* eid of the context written over its own
C19_Witness ==
    /\ Requested("evaluation_issues")
    /\ resp.code = 200
    /\ Len(out) = 2
    /\ out[2] # resp.body.items[2]
    /\ Item(out[2], "eid") = Item(last.ctx.d, "eid")

====
